---- MODULE Spec2Model ----
(***************************************************************************)
(* A model of couchfs.py: a FUSE file system whose inodes are CouchDB      *)
(* documents and whose contents are attachments of those documents.        *)
(*                                                                         *)
(* The store is modelled by what the couchdb client calls of couchfs.py    *)
(* do: a document carries a revision, a write names the revision it was    *)
(* read at and is refused when that revision is not the current one, and   *)
(* saving a document keeps exactly the attachments its stubs name.         *)
(* Every store call is one round trip; a round trip can time out, which    *)
(* is how exc_handle's retry is exercised.                                 *)
(***************************************************************************)
EXTENDS Integers, Sequences, FiniteSets, TLC

VARIABLES
    db,        \* the CouchDB database: document id -> inode document
    inodes,    \* CouchFS._inodes: path -> [inode, refs]
    nextId,    \* the next store-assigned document id
    now,       \* the wall clock read by _now()
    held,      \* per path: successful opens minus releases issued by the bridge
    ret,       \* the last dispatcher call: its operation, arguments and result,
               \* the times its body ran and how the first run ended
    ncalls,    \* the number of calls made so far
    cpc,       \* concurrent open/release: each thread's position
    clocal,    \* concurrent open/release: each thread's local variables
    cdict,     \* concurrent open/release: _inodes[path] -> the list object it holds
    clists,    \* concurrent open/release: list object -> its reference count slot
    cstat      \* concurrent open/release: finished opens and releases

vars == <<db, inodes, nextId, now, held, ret, ncalls, cpc, clocal, cdict, clists, cstat>>
fsvars == <<db, inodes, nextId, now, held, ret, ncalls>>
cvars == <<cpc, clocal, cdict, clists, cstat>>

----------------------------------------------------------------------------
(* Bounds *)

MaxCalls == 4       \* calls of a run
MaxFCalls == 2      \* calls of a run in which round trips time out
MaxDocs == 3        \* store-assigned document ids 1..MaxDocs
MaxTime == 1        \* the clock runs 0..MaxTime
MaxBuf == 1         \* longest write buffer / read size
MaxOff == 1         \* largest offset and truncate length
MaxOpens == 2       \* most handles open on one path
NThreads == 2       \* bridge threads calling open and release at once
MaxCOpens == 2      \* open calls of a concurrent run
Bytes == {1, 2}
Targets == {"/a"}

----------------------------------------------------------------------------
(* Program constants *)

ROOT_INODE_ID == 0
S_IFDIR == 16384
S_IFREG == 32768
S_IFLNK == 40960
RootPerm == 365     \* 0555
LinkPerm == 511     \* 0777
FilePerm == 420     \* 0644, the mode of scenario A
DirPerm == 493      \* 0755
ChmodPerm == 384    \* 0600

\* mode & bits, for a single-bit mask
BitAnd(mode, bit) == IF (mode \div bit) % 2 = 1 THEN bit ELSE 0
\* bits | mode, for a single-bit mask
BitOr(bit, mode) == IF BitAnd(mode, bit) = bit THEN mode ELSE mode + bit

----------------------------------------------------------------------------
(* Paths: a path is the sequence of its components, "/" is <<>>. *)

Paths == {<<>>, <<"a">>, <<"b">>, <<"a", "b">>}

\* os.path.split on a normalised absolute path
split(path) ==
    IF path = <<>>
    THEN [dirname |-> <<>>, basename |-> ""]
    ELSE [dirname |-> SubSeq(path, 1, Len(path) - 1), basename |-> path[Len(path)]]

Min(S) == CHOOSE m \in S : \A n \in S : m <= n

\* Python slices s[:n] and s[n:] for n >= 0
Take(s, n) == SubSeq(s, 1, IF n < Len(s) THEN n ELSE Len(s))
Drop(s, n) == SubSeq(s, n + 1, Len(s))

----------------------------------------------------------------------------
(* Directory entry maps and their JSON text.  A map is a set of            *)
(* <<name, id>> pairs, its JSON text the sequence of its items.            *)

RECURSIVE dumps(_)
\* json.dumps: the items of the map, one after the other
dumps(dentry) ==
    IF dentry = {} THEN <<>>
    ELSE LET e == CHOOSE e1 \in dentry : TRUE
         IN <<e>> \o dumps(dentry \ {e})

\* json.load: the map the text denotes
load(text) == {text[i] : i \in DOMAIN text}

\* a document id is printed as "root_inode" or as a 32 digit uuid
IdLen(id) == IF id = ROOT_INODE_ID THEN Len("root_inode") ELSE 32

RECURSIVE ItemsLen(_)
ItemsLen(text) ==
    IF text = <<>> THEN 0
    ELSE Len(text[1][1]) + IdLen(text[1][2]) + 6 + ItemsLen(Tail(text))

\* the number of characters of the JSON text: {"k": "v", "k": "v"}
JsonLen(text) == IF text = <<>> THEN 2 ELSE ItemsLen(text) + 2 * Len(text)

\* the length CouchDB reports in the stub of an attachment
AttLen(name, content) == IF name = "dentry.json" THEN JsonLen(content) ELSE Len(content)

HasKey(dentry, k) == \E e \in dentry : e[1] = k
\* dentry[k] = v
SetKey(dentry, k, v) == {e \in dentry : e[1] # k} \cup {<<k, v>>}
\* del dentry[k]
DelKey(dentry, k) == {e \in dentry : e[1] # k}
Keys(dentry) == {e[1] : e \in dentry}

----------------------------------------------------------------------------
(* The execution context of one attempt of a dispatcher call: the store,   *)
(* the cache, the id generator, the clock, the round trips made so far,    *)
(* the round trip that times out (0: none) and the pending exception.      *)

Ctx(d, i, n, t, fp) ==
    [db |-> d, inodes |-> i, nextId |-> n, now |-> t, rt |-> 0, fp |-> fp, exc |-> "none"]

Ok(x) == x.exc = "none"

\* a request to the store: socket.timeout when it is the one that times out
RoundTrip(x) ==
    IF ~Ok(x) THEN x
    ELSE IF x.rt + 1 = x.fp THEN [x EXCEPT !.rt = @ + 1, !.exc = "timeout"]
    ELSE [x EXCEPT !.rt = @ + 1]

\* any exception other than socket.timeout
Raise(x) == IF Ok(x) THEN [x EXCEPT !.exc = "error"] ELSE x

Remove(f, k) == [j \in DOMAIN f \ {k} |-> f[j]]

\* name the value v in F: LET g == v IN F(g), with v written once
Bind(v, F(_)) == F(v)

----------------------------------------------------------------------------
(* The couchdb client calls made by couchfs.py *)

None == [isNone |-> TRUE, id |-> 0, rev |-> 0,
         inode |-> [path |-> <<>>, mode |-> 0, nlink |-> 0, ctime |-> 0, mtime |-> 0],
         stubs |-> <<>>]

\* the client's copy of a stored document, with the stubs of its attachments
Document(d, id) ==
    [isNone |-> FALSE, id |-> id, rev |-> d[id].rev, inode |-> d[id].inode,
     stubs |-> [n \in DOMAIN d[id].att |-> AttLen(n, d[id].att[n])]]

Rows(d, path) == {i \in DOMAIN d : d[i].inode.path = path}

\* self._couchdb.view('_design/inode/_view/by_path', include_docs=True)[path]:
\* rows[0].doc of the rows the key selects
view_by_path(x, path) ==
    Bind(RoundTrip(x), LAMBDA x1 :
        [x |-> x1,
         doc |-> IF Ok(x1) /\ Rows(x1.db, path) # {}
                 THEN Document(x1.db, Min(Rows(x1.db, path))) ELSE None])

\* self._couchdb.save(inode) of a new document; _id is {} or {the id to use}
save_new(x, inode, _id) ==
    Bind(RoundTrip(x), LAMBDA x1 :
    Bind(IF _id = {} THEN x1.nextId ELSE CHOOSE i \in _id : TRUE, LAMBDA id :
        IF ~Ok(x1) THEN [x |-> x1, doc |-> None]
        ELSE IF id \in DOMAIN x1.db THEN [x |-> Raise(x1), doc |-> None]
        ELSE [x |-> [x1 EXCEPT !.db = (id :> [rev |-> 1, inode |-> inode, att |-> <<>>]) @@ @,
                               !.nextId = IF _id = {} THEN @ + 1 ELSE @],
              doc |-> [isNone |-> FALSE, id |-> id, rev |-> 1, inode |-> inode,
                       stubs |-> <<>>]]))

\* self._couchdb.save(inode) of a document read before: refused unless it
\* carries the current revision; keeps the attachments its stubs name
save(x, doc) ==
    Bind(RoundTrip(x), LAMBDA x1 :
        IF ~Ok(x1) THEN [x |-> x1, doc |-> doc]
        ELSE IF \/ doc.id \notin DOMAIN x1.db
                \/ x1.db[doc.id].rev # doc.rev
                \/ ~(DOMAIN doc.stubs \subseteq DOMAIN x1.db[doc.id].att)
             THEN [x |-> Raise(x1), doc |-> doc]
        ELSE [x |-> [x1 EXCEPT !.db[doc.id] =
                        [rev |-> @.rev + 1, inode |-> doc.inode,
                         att |-> [n \in DOMAIN doc.stubs |-> @.att[n]]]],
              doc |-> [doc EXCEPT !.rev = x1.db[doc.id].rev + 1]])

\* self._couchdb[id]
getitem(x, id) ==
    Bind(RoundTrip(x), LAMBDA x1 :
        IF ~Ok(x1) THEN [x |-> x1, doc |-> None]
        ELSE IF id \notin DOMAIN x1.db THEN [x |-> Raise(x1), doc |-> None]
        ELSE [x |-> x1, doc |-> Document(x1.db, id)])

\* self._couchdb.get_attachment(inode, name): None when there is none
get_attachment(x, doc, name) ==
    IF ~Ok(x) THEN [x |-> x, found |-> FALSE, content |-> <<>>]
    ELSE IF doc.isNone THEN [x |-> Raise(x), found |-> FALSE, content |-> <<>>]
    ELSE Bind(RoundTrip(x), LAMBDA x1 :
         IF /\ Ok(x1)
            /\ doc.id \in DOMAIN x1.db
            /\ name \in DOMAIN x1.db[doc.id].att
         THEN [x |-> x1, found |-> TRUE, content |-> x1.db[doc.id].att[name]]
         ELSE [x |-> x1, found |-> FALSE, content |-> <<>>])

\* self._couchdb.put_attachment(inode, content, name, type): refused unless
\* inode carries the current revision; sets inode['_rev']
put_attachment(x, doc, content, name) ==
    IF ~Ok(x) THEN [x |-> x, doc |-> doc]
    ELSE IF doc.isNone THEN [x |-> Raise(x), doc |-> doc]
    ELSE Bind(RoundTrip(x), LAMBDA x1 :
         IF ~Ok(x1) THEN [x |-> x1, doc |-> doc]
         ELSE IF doc.id \notin DOMAIN x1.db \/ x1.db[doc.id].rev # doc.rev
              THEN [x |-> Raise(x1), doc |-> doc]
         ELSE [x |-> [x1 EXCEPT !.db[doc.id].rev = @ + 1,
                                !.db[doc.id].att = (name :> content) @@ @],
               doc |-> [doc EXCEPT !.rev = @ + 1]])

\* self._couchdb.delete(inode): refused unless inode carries the current revision
delete(x, doc) ==
    IF ~Ok(x) THEN x
    ELSE IF doc.isNone THEN Raise(x)
    ELSE Bind(RoundTrip(x), LAMBDA x1 :
         IF ~Ok(x1) THEN x1
         ELSE IF doc.id \notin DOMAIN x1.db \/ x1.db[doc.id].rev # doc.rev
              THEN Raise(x1)
         ELSE [x1 EXCEPT !.db = Remove(@, doc.id)])

\* an inode object is either local to the call (cref = {}) or the object the
\* cache holds for a path (cref = {path}); a change of the object shows there
Alias(x, cref, doc) ==
    IF cref = {} \/ ~Ok(x) THEN x
    ELSE Bind(CHOOSE q \in cref : TRUE, LAMBDA p :
         IF p \in DOMAIN x.inodes THEN [x EXCEPT !.inodes[p].inode = doc] ELSE x)

----------------------------------------------------------------------------
(* CouchFS: the helpers *)

_get_inode(x, path) ==
    IF path \in DOMAIN x.inodes
    THEN [x |-> x, inode |-> x.inodes[path].inode, cref |-> {path}]
    ELSE Bind(view_by_path(x, path), LAMBDA v :
         [x |-> v.x, inode |-> v.doc, cref |-> {}])

_create_inode(x, path, mode, _id) ==
    Bind(save_new(x, [path |-> path, mode |-> mode,
                      nlink |-> IF BitAnd(mode, S_IFDIR) # 0 THEN 2 ELSE 1,
                      ctime |-> x.now, mtime |-> x.now], _id),
         LAMBDA s : [x |-> s.x, inode |-> s.doc])

_get_dblock(x, inode) ==
    Bind(get_attachment(x, inode, "dblock"), LAMBDA g :
        [x |-> g.x, dblock |-> IF g.found THEN g.content ELSE <<>>])

\* the timestamp update is commented out in the source
_put_dblock(x, inode, cref, dblock) ==
    Bind(put_attachment(x, inode, dblock, "dblock"), LAMBDA p :
        [x |-> Alias(p.x, cref, p.doc), inode |-> p.doc])

_get_symlink(x, inode) ==
    Bind(get_attachment(x, inode, "symlink"), LAMBDA g :
        [x |-> g.x, link |-> IF g.found THEN g.content ELSE ""])

_put_symlink(x, inode, link) ==
    Bind(put_attachment(x, inode, link, "symlink"), LAMBDA p :
        [x |-> p.x, inode |-> p.doc])

\* json.load(None) raises when the document has no dentry.json
_get_dentry(x, inode) ==
    Bind(get_attachment(x, inode, "dentry.json"), LAMBDA g :
        IF ~Ok(g.x) THEN [x |-> g.x, dentry |-> {}]
        ELSE IF ~g.found THEN [x |-> Raise(g.x), dentry |-> {}]
        ELSE [x |-> g.x, dentry |-> load(g.content)])

\* fetches the document afresh, so the caller's inode keeps its revision
_update_inode_timestamp(x, inode) ==
    Bind(getitem(x, inode.id), LAMBDA g :
        save(g.x, [g.doc EXCEPT !.inode.mtime = x.now]).x)

_put_dentry(x, inode, cref, dentry) ==
    Bind(put_attachment(x, inode, dumps(dentry), "dentry.json"), LAMBDA p :
        [x |-> _update_inode_timestamp(Alias(p.x, cref, p.doc), p.doc),
         inode |-> p.doc])

_add_dentry(x, path, inode) ==
    Bind(split(path), LAMBDA sp :
    Bind(_get_inode(x, sp.dirname), LAMBDA g :
    Bind(_get_dentry(g.x, g.inode), LAMBDA d :
    Bind(_put_dentry(d.x, g.inode, g.cref, SetKey(d.dentry, sp.basename, inode.id)),
         LAMBDA p : [x |-> p.x, par_inode |-> p.inode]))))

\* del dentry[basename] raises KeyError when the name is not in the map
_del_dentry(x, path) ==
    Bind(split(path), LAMBDA sp :
    Bind(_get_inode(x, sp.dirname), LAMBDA g :
    Bind(_get_dentry(g.x, g.inode), LAMBDA d :
    Bind(_put_dentry(IF HasKey(d.dentry, sp.basename) THEN d.x ELSE Raise(d.x),
                     g.inode, g.cref, DelKey(d.dentry, sp.basename)),
         LAMBDA p : [x |-> p.x, par_inode |-> p.inode]))))

\* the design document of the view is not modelled: the view always answers
_init_root(x) ==
    Bind(_get_inode(x, <<>>), LAMBDA g :
    IF ~g.inode.isNone THEN g.x
    ELSE Bind(_create_inode(g.x, <<>>, BitOr(S_IFDIR, RootPerm), {ROOT_INODE_ID}),
              LAMBDA c :
              _put_dentry(c.x, c.inode, {},
                          {<<".", ROOT_INODE_ID>>, <<"..", ROOT_INODE_ID>>}).x))

----------------------------------------------------------------------------
(* CouchFS: the bodies of the dispatcher operations.  A body returns the   *)
(* context it leaves and its return value; when the context holds an       *)
(* exception the return value is meaningless.                              *)

NoStat == [st_mode |-> 0, st_size |-> 0, st_nlink |-> 0, st_mtime |-> 0, st_ctime |-> 0]

R(x, err) == [x |-> x, err |-> err, data |-> <<>>, link |-> "", n |-> 0,
              st |-> NoStat, names |-> {}]

\* the size getattr takes from the stubs of inode
StubSize(att) ==
    IF "dentry.json" \in DOMAIN att THEN att["dentry.json"]
    ELSE IF "dblock" \in DOMAIN att THEN att["dblock"]
    ELSE IF "symlink" \in DOMAIN att THEN att["symlink"]
    ELSE 0

getattr(x, path) ==
    Bind(_get_inode(x, path), LAMBDA g :
    IF ~Ok(g.x) THEN R(g.x, "OK")
    ELSE IF g.inode.isNone THEN R(g.x, "ENOENT")
    ELSE [R(g.x, "OK") EXCEPT !.st =
             [st_mode |-> g.inode.inode.mode, st_size |-> StubSize(g.inode.stubs),
              st_nlink |-> g.inode.inode.nlink,
              st_mtime |-> g.inode.inode.mtime, st_ctime |-> g.inode.inode.ctime]])

\* a generator: the body runs when the caller iterates, outside exc_handle
readdir(x, path, offset) ==
    Bind(_get_inode(x, path), LAMBDA g :
    Bind(_get_dentry(g.x, g.inode), LAMBDA d :
        [R(d.x, "OK") EXCEPT !.names = Keys(d.dentry)]))

\* mknod without the test for an existing node
mknod_nocheck(x, path, mode, dev) ==
    Bind(_create_inode(x, path, mode, {}), LAMBDA c :
        R(_add_dentry(c.x, path, c.inode).x, "OK"))

mknod(x, path, mode, dev) ==
    Bind(_get_inode(x, path), LAMBDA g :
    IF Ok(g.x) /\ ~g.inode.isNone THEN R(g.x, "EEXIST")
    ELSE Bind(_create_inode(g.x, path, mode, {}), LAMBDA c :
         R(_add_dentry(c.x, path, c.inode).x, "OK")))

unlink(x, path) ==
    Bind(_get_inode(x, path), LAMBDA g :
    IF Ok(g.x) /\ g.inode.isNone THEN R(g.x, "ENOENT")
    ELSE R(_del_dentry(delete(g.x, g.inode), path).x, "OK"))

rmdir(x, path) ==
    Bind(_get_inode(x, path), LAMBDA g :
    IF Ok(g.x) /\ g.inode.isNone THEN R(g.x, "ENOENT")
    ELSE Bind(_get_dentry(g.x, g.inode), LAMBDA e :
         IF Ok(e.x) /\ Cardinality(e.dentry) > 2 THEN R(e.x, "ENOTEMPTY")
         ELSE R(_del_dentry(delete(e.x, g.inode), path).x, "OK")))

open(x, path, flags) ==
    Bind(_get_inode(x, path), LAMBDA g :
    IF ~Ok(g.x) THEN R(g.x, "OK")
    ELSE IF g.inode.isNone THEN R(g.x, "ENOENT")
    ELSE Bind(IF path \notin DOMAIN g.x.inodes
              THEN (path :> [inode |-> g.inode, refs |-> 0]) @@ g.x.inodes
              ELSE g.x.inodes,
              LAMBDA i1 :
              R([g.x EXCEPT !.inodes = [i1 EXCEPT ![path].refs = @ + 1]], "OK")))

\* release without a count: the entry goes with the first release
release_evict(x, path, flags) ==
    IF path \notin DOMAIN x.inodes THEN R(Raise(x), "OK")
    ELSE R([x EXCEPT !.inodes = Remove(@, path)], "OK")

\* refs is a local copy: the count in the table is not written back
release(x, path, flags) ==
    IF path \notin DOMAIN x.inodes THEN R(Raise(x), "OK")
    ELSE Bind(x.inodes[path].refs - 1, LAMBDA refs :
         IF refs <= 0 THEN R([x EXCEPT !.inodes = Remove(@, path)], "OK")
         ELSE R(x, "OK"))

read(x, path, size, offset) ==
    IF path \notin DOMAIN x.inodes THEN R(Raise(x), "OK")
    ELSE Bind(_get_dblock(x, x.inodes[path].inode), LAMBDA g :
         [R(g.x, "OK") EXCEPT !.data = Take(Drop(g.dblock, offset), size)])

write(x, path, buf, offset) ==
    IF path \notin DOMAIN x.inodes THEN R(Raise(x), "OK")
    ELSE Bind(x.inodes[path].inode, LAMBDA inode :
         Bind(Len(buf), LAMBDA buf_len :
         Bind(_get_dblock(x, inode), LAMBDA g :
         Bind(Take(g.dblock, offset) \o buf \o Drop(g.dblock, offset + buf_len),
              LAMBDA dblock :
              [R(_put_dblock(g.x, inode, {path}, dblock).x, "OK") EXCEPT !.n = buf_len]))))

mkdir(x, path, mode) ==
    Bind(_get_inode(x, path), LAMBDA g :
    IF Ok(g.x) /\ ~g.inode.isNone THEN R(g.x, "EEXIST")
    ELSE Bind(_create_inode(g.x, path, BitOr(S_IFDIR, mode), {}), LAMBDA c :
         Bind(_add_dentry(c.x, path, c.inode), LAMBDA a :
              R(_put_dentry(a.x, c.inode, {},
                            {<<".", c.inode.id>>, <<"..", a.par_inode.id>>}).x, "OK"))))

\* truncate keeping dblock[length:] instead of dblock[:length]
truncate_tail(x, path, length) ==
    IF path \notin DOMAIN x.inodes THEN R(Raise(x), "OK")
    ELSE Bind(x.inodes[path].inode, LAMBDA inode :
         Bind(_get_dblock(x, inode), LAMBDA g :
              R(_put_dblock(g.x, inode, {path}, Drop(g.dblock, length)).x, "OK")))

truncate(x, path, length) ==
    IF path \notin DOMAIN x.inodes THEN R(Raise(x), "OK")
    ELSE Bind(x.inodes[path].inode, LAMBDA inode :
         Bind(_get_dblock(x, inode), LAMBDA g :
              R(_put_dblock(g.x, inode, {path}, Take(g.dblock, length)).x, "OK")))

readlink(x, path) ==
    Bind(_get_inode(x, path), LAMBDA g :
    IF Ok(g.x) /\ g.inode.isNone THEN R(g.x, "ENOENT")
    ELSE Bind(_get_symlink(g.x, g.inode), LAMBDA l :
         [R(l.x, "OK") EXCEPT !.link = l.link]))

\* symlink that never stores the target
symlink_nolink(x, source, path) ==
    Bind(_get_inode(x, path), LAMBDA g :
    IF Ok(g.x) /\ ~g.inode.isNone THEN R(g.x, "EEXIST")
    ELSE Bind(_create_inode(g.x, path, BitOr(S_IFLNK, LinkPerm), {}), LAMBDA c :
         R(_add_dentry(c.x, path, c.inode).x, "OK")))

symlink(x, source, path) ==
    Bind(_get_inode(x, path), LAMBDA g :
    IF Ok(g.x) /\ ~g.inode.isNone THEN R(g.x, "EEXIST")
    ELSE Bind(_create_inode(g.x, path, BitOr(S_IFLNK, LinkPerm), {}), LAMBDA c :
         Bind(_put_symlink(c.x, c.inode, source), LAMBDA p :
              R(_add_dentry(p.x, path, p.inode).x, "OK"))))

\* the mode is set in the inode object before the save is tried
chmod(x, path, mode) ==
    Bind(_get_inode(x, path), LAMBDA g :
    IF Ok(g.x) /\ g.inode.isNone THEN R(g.x, "ENOENT")
    ELSE Bind([g.inode EXCEPT !.inode.mode = mode], LAMBDA inode :
         Bind(save(Alias(g.x, g.cref, inode), inode), LAMBDA s :
              R(Alias(s.x, g.cref, s.doc), "OK"))))

chown(x, path, user, group) == R(x, "OK")

utime(x, path, times) == R(x, "OK")

\* r1 is what the first call of f returns or raises, r2 what the second does.
\* try f; on socket.timeout call f once more, outside the try statement; on
\* any other exception return -EINVAL.  "RAISED": the exception leaves the
\* wrapper
exc_handle(r1, r2) ==
    IF r1.x.exc = "timeout"
    THEN [r |-> IF Ok(r2.x) THEN r2 ELSE R(r2.x, "RAISED"), tries |-> 2,
          first |-> r1.x.exc]
    ELSE IF r1.x.exc = "error"
         THEN [r |-> R(r1.x, "EINVAL"), tries |-> 1, first |-> r1.x.exc]
    ELSE [r |-> r1, tries |-> 1, first |-> r1.x.exc]

----------------------------------------------------------------------------
(* The state machine: one action per dispatcher operation.  With faulty,   *)
(* one round trip of an attempt may time out.                              *)

W == [db |-> db, inodes |-> inodes, nextId |-> nextId, now |-> now]

\* the state as a call finds it, with no round trip timing out
Here == Ctx(db, inodes, nextId, now, 0)

Bufs == UNION {[1..n -> Bytes] : n \in 0..MaxBuf}

\* A revision is an opaque token: all a call can see of it is whether the
\* copy it holds carries the current one.  Between calls the tokens are
\* renamed: 1 is the current revision of a document, 0 a superseded one.
CanonDb(d) == [i \in DOMAIN d |-> [d[i] EXCEPT !.rev = 1]]

CanonInodes(d, c) ==
    [p \in DOMAIN c |->
        [c[p] EXCEPT !.inode.rev =
            IF c[p].inode.id \in DOMAIN d /\ d[c[p].inode.id].rev = @ THEN 1 ELSE 0]]

\* the result h of a call becomes the new state, within the bounds (B calls)
Commit(h, B) ==
    /\ ncalls < B
    /\ ncalls' = ncalls + 1
    /\ h.r.x.nextId <= MaxDocs + 1
    /\ db' = CanonDb(h.r.x.db)
    /\ inodes' = CanonInodes(h.r.x.db, h.r.x.inodes)
    /\ nextId' = h.r.x.nextId

Ret(op, path, buf, offset, size, h) ==
    [op |-> op, path |-> path, buf |-> buf, offset |-> offset, size |-> size,
     err |-> h.r.err, data |-> h.r.data, link |-> h.r.link, n |-> h.r.n,
     st |-> h.r.st, names |-> h.r.names, tries |-> h.tries, first |-> h.first]

NoCall(op) ==
    [op |-> op, path |-> <<>>, buf |-> <<>>, offset |-> 0, size |-> 0,
     err |-> "OK", data |-> <<>>, link |-> "", n |-> 0,
     st |-> NoStat, names |-> {}, tries |-> 0, first |-> "none"]

\* the handles the bridge holds on path after the call: one more after an
\* open that succeeded, one less after the release it issues for a handle
Held(op, path, h) ==
    IF op = "open" /\ h.r.err = "OK" THEN [held EXCEPT ![path] = @ + 1]
    ELSE IF op = "release" THEN [held EXCEPT ![path] = @ - 1]
    ELSE held

\* the bridge makes the call and gets h back
Call(op, path, buf, offset, size, h, B) ==
    /\ Commit(h, B)
    /\ held' = Held(op, path, h)
    /\ ret' = Ret(op, path, buf, offset, size, h)
    /\ UNCHANGED <<now, cvars>>

\* the state the second call of f starts in: what the first one left
Again(r1, w, fp2) == Ctx(r1.x.db, r1.x.inodes, r1.x.nextId, w.now, fp2)

\* f called through exc_handle in w; round trip fp1 of the first call and
\* round trip fp2 of the second time out (0: none)
Wrapped(f(_), w, fp1, fp2) ==
    Bind(f(Ctx(w.db, w.inodes, w.nextId, w.now, fp1)), LAMBDA r1 :
        exc_handle(r1, f(Again(r1, w, fp2))))

\* the round trips a call of f makes in w when none times out
Trips(f(_), w) == f(Ctx(w.db, w.inodes, w.nextId, w.now, 0)).x.rt

\* the round trip of the first call that times out (0: none)
First(f(_), w, faulty) == IF faulty THEN 0..Trips(f, w) ELSE {0}

\* the round trip of the second call that times out (0: none)
Retry(f(_), w, fp1) ==
    IF fp1 = 0 THEN {0}
    ELSE 0..Trips(f, f(Ctx(w.db, w.inodes, w.nextId, w.now, fp1)).x)

GetattrF(faulty, B) ==
    \E path \in Paths :
        LET f(x) == getattr(x, path) IN
        \E fp1 \in First(f, W, faulty) : \E fp2 \in Retry(f, W, fp1) :
            Call("getattr", path, <<>>, 0, 0, Wrapped(f, W, fp1, fp2), B)

\* a generator function: the call returns a generator and the body runs when
\* the bridge iterates it, so no attempt is repeated and no exception caught
Iterate(r) ==
    [r |-> IF Ok(r.x) THEN r ELSE R(r.x, "RAISED"), tries |-> 1, first |-> r.x.exc]

ReaddirF(faulty, B) ==
    \E path \in Paths :
        LET f(x) == readdir(x, path, 0) IN
        \E fp1 \in First(f, W, faulty) :
            Call("readdir", path, <<>>, 0, 0,
                 Iterate(f(Ctx(db, inodes, nextId, now, fp1))), B)

MknodF(faulty, B) ==
    \E path \in Paths :
        LET f(x) == mknod(x, path, BitOr(S_IFREG, FilePerm), 0) IN
        \E fp1 \in First(f, W, faulty) : \E fp2 \in Retry(f, W, fp1) :
            Call("mknod", path, <<>>, 0, 0, Wrapped(f, W, fp1, fp2), B)

UnlinkF(faulty, B) ==
    \E path \in Paths :
        LET f(x) == unlink(x, path) IN
        \E fp1 \in First(f, W, faulty) : \E fp2 \in Retry(f, W, fp1) :
            Call("unlink", path, <<>>, 0, 0, Wrapped(f, W, fp1, fp2), B)

RmdirF(faulty, B) ==
    \E path \in Paths :
        LET f(x) == rmdir(x, path) IN
        \E fp1 \in First(f, W, faulty) : \E fp2 \in Retry(f, W, fp1) :
            Call("rmdir", path, <<>>, 0, 0, Wrapped(f, W, fp1, fp2), B)

\* The bridge sends open for what getattr told it is a regular file, or for a
\* path it has no attributes of: directories are opened with opendir, which
\* CouchFS does not define, and symbolic links are resolved before the open.
Openable(path) ==
    getattr(Here, path).st.st_mode \div 4096 \in {0, S_IFREG \div 4096}

\* the bridge holds at most MaxOpens handles on a path
OpenF(faulty, B) ==
    \E path \in Paths :
        LET f(x) == open(x, path, 0) IN
        \E fp1 \in First(f, W, faulty) : \E fp2 \in Retry(f, W, fp1) :
            /\ Openable(path)
            /\ held[path] < MaxOpens
            /\ path \in DOMAIN inodes => inodes[path].refs < MaxOpens
            /\ Call("open", path, <<>>, 0, 0, Wrapped(f, W, fp1, fp2), B)

\* the bridge releases once per successful open
ReleaseF(faulty, B) ==
    \E path \in Paths :
        LET f(x) == release(x, path, 0) IN
        \E fp1 \in First(f, W, faulty) : \E fp2 \in Retry(f, W, fp1) :
            /\ held[path] > 0
            /\ Call("release", path, <<>>, 0, 0, Wrapped(f, W, fp1, fp2), B)

\* the bridge reads, writes and truncates only through a handle
ReadF(faulty, B) ==
    \E path \in Paths, size \in 0..MaxBuf, offset \in 0..MaxOff :
        LET f(x) == read(x, path, size, offset) IN
        \E fp1 \in First(f, W, faulty) : \E fp2 \in Retry(f, W, fp1) :
            /\ held[path] > 0
            /\ Call("read", path, <<>>, offset, size, Wrapped(f, W, fp1, fp2), B)

WriteF(faulty, B) ==
    \E path \in Paths, buf \in Bufs, offset \in 0..MaxOff :
        LET f(x) == write(x, path, buf, offset) IN
        \E fp1 \in First(f, W, faulty) : \E fp2 \in Retry(f, W, fp1) :
            /\ held[path] > 0
            /\ Call("write", path, buf, offset, 0, Wrapped(f, W, fp1, fp2), B)

MkdirF(faulty, B) ==
    \E path \in Paths :
        LET f(x) == mkdir(x, path, DirPerm) IN
        \E fp1 \in First(f, W, faulty) : \E fp2 \in Retry(f, W, fp1) :
            Call("mkdir", path, <<>>, 0, 0, Wrapped(f, W, fp1, fp2), B)

TruncateF(faulty, B) ==
    \E path \in Paths, length \in 0..MaxOff :
        LET f(x) == truncate(x, path, length) IN
        \E fp1 \in First(f, W, faulty) : \E fp2 \in Retry(f, W, fp1) :
            /\ held[path] > 0
            /\ Call("truncate", path, <<>>, 0, length, Wrapped(f, W, fp1, fp2), B)

ReadlinkF(faulty, B) ==
    \E path \in Paths :
        LET f(x) == readlink(x, path) IN
        \E fp1 \in First(f, W, faulty) : \E fp2 \in Retry(f, W, fp1) :
            Call("readlink", path, <<>>, 0, 0, Wrapped(f, W, fp1, fp2), B)

SymlinkF(faulty, B) ==
    \E path \in Paths, source \in Targets :
        LET f(x) == symlink(x, source, path) IN
        \E fp1 \in First(f, W, faulty) : \E fp2 \in Retry(f, W, fp1) :
            Call("symlink", path, <<>>, 0, 0, Wrapped(f, W, fp1, fp2), B)

\* the file type bits of the mode the bridge knows from getattr, with the
\* new permissions
NewMode(path) ==
    (getattr(Here, path).st.st_mode \div 4096) * 4096 + ChmodPerm

ChmodF(faulty, B) ==
    \E path \in Paths : \E mode \in {NewMode(path)} :
        LET f(x) == chmod(x, path, mode) IN
        \E fp1 \in First(f, W, faulty) : \E fp2 \in Retry(f, W, fp1) :
            Call("chmod", path, <<>>, 0, 0, Wrapped(f, W, fp1, fp2), B)

\* the bodies of chown and utime use none of their arguments
Chown ==
    \E path \in {<<>>} :
        LET f(x) == chown(x, path, 0, 0) IN
        Call("chown", path, <<>>, 0, 0, Wrapped(f, W, 0, 0), MaxCalls)

\* not wrapped by exc_handle
Direct(r) == [r |-> r, tries |-> 1, first |-> r.x.exc]

Utime ==
    \E path \in {<<>>} :
        Call("utime", path, <<>>, 0, 0,
             Direct(utime(Here, path, 0)), MaxCalls)

\* time passes between calls
Tick ==
    /\ now < MaxTime
    /\ now' = now + 1
    /\ ret' = NoCall("tick")
    /\ UNCHANGED <<db, inodes, nextId, held, ncalls, cvars>>

\* the process is started again on the same database: CouchFS.__init__
Started(x) ==
    /\ db' = CanonDb(x.db)
    /\ inodes' = x.inodes
    /\ nextId' = x.nextId

Restart ==
    /\ ncalls < MaxCalls
    /\ ncalls' = ncalls + 1
    /\ Started(_init_root(Ctx(db, <<>>, nextId, now, 0)))
    /\ held' = [p \in Paths |-> 0]
    /\ ret' = NoCall("restart")
    /\ UNCHANGED <<now, cvars>>

Getattr == GetattrF(FALSE, MaxCalls)
Readdir == ReaddirF(FALSE, MaxCalls)
Mknod == MknodF(FALSE, MaxCalls)
Unlink == UnlinkF(FALSE, MaxCalls)
Rmdir == RmdirF(FALSE, MaxCalls)
Open == OpenF(FALSE, MaxCalls)
Release == ReleaseF(FALSE, MaxCalls)
Read == ReadF(FALSE, MaxCalls)
Write == WriteF(FALSE, MaxCalls)
Mkdir == MkdirF(FALSE, MaxCalls)
Truncate == TruncateF(FALSE, MaxCalls)
Readlink == ReadlinkF(FALSE, MaxCalls)
Symlink == SymlinkF(FALSE, MaxCalls)
Chmod == ChmodF(FALSE, MaxCalls)

Threads == 1..NThreads

\* the path the concurrent calls are about
CPath == <<"a", "b">>

CInit ==
    /\ cpc = [t \in Threads |-> "idle"]
    /\ clocal = [t \in Threads |-> [lst |-> 0, tmp |-> 0, refs |-> 0]]
    /\ cdict = {}
    /\ clists = <<>>
    /\ cstat = [started |-> 0, opens |-> 0, releasing |-> 0, rels |-> 0]

\* The database of the first run: CouchFS.__init__ has created the root
Fresh == _init_root(Ctx(<<>>, <<>>, 1, 0, 0))

\* The database an earlier run left after mkdir('/a') and mknod('/a/b'):
\* the root, the directory /a (id 1) and the file /a/b (id 2), which has no
\* dblock yet, all stamped at time 0.
Populated ==
    [nextId |-> 3,
     db |-> (ROOT_INODE_ID :>
                [rev |-> 1,
                 inode |-> [path |-> <<>>, mode |-> BitOr(S_IFDIR, RootPerm), nlink |-> 2,
                            ctime |-> 0, mtime |-> 0],
                 att |-> ("dentry.json" :>
                            dumps({<<".", ROOT_INODE_ID>>, <<"..", ROOT_INODE_ID>>,
                                   <<"a", 1>>}))])
         @@ (1 :>
                [rev |-> 1,
                 inode |-> [path |-> <<"a">>, mode |-> BitOr(S_IFDIR, DirPerm), nlink |-> 2,
                            ctime |-> 0, mtime |-> 0],
                 att |-> ("dentry.json" :>
                            dumps({<<".", 1>>, <<"..", ROOT_INODE_ID>>, <<"b", 2>>}))])
         @@ (2 :>
                [rev |-> 1,
                 inode |-> [path |-> <<"a", "b">>, mode |-> BitOr(S_IFREG, FilePerm),
                            nlink |-> 1, ctime |-> 0, mtime |-> 0],
                 att |-> <<>>])]

\* the databases the process is started on
Stores == {[nextId |-> Fresh.nextId, db |-> CanonDb(Fresh.db)], Populated}

\* the state CouchFS.__init__ leaves on store s, at time 0
InitOn(s) ==
    /\ db = s.db
    /\ inodes = <<>>
    /\ nextId = s.nextId
    /\ now = 0
    /\ held = [p \in Paths |-> 0]
    /\ ret = NoCall("init")
    /\ ncalls = 0
    /\ CInit

Init == \E s \in Stores : InitOn(s)

InitP == InitOn(Populated)

Next ==
    \/ Getattr
    \/ Readdir
    \/ Mknod
    \/ Unlink
    \/ Rmdir
    \/ Open
    \/ Release
    \/ Read
    \/ Write
    \/ Mkdir
    \/ Truncate
    \/ Readlink
    \/ Symlink
    \/ Chmod
    \/ Chown
    \/ Utime
    \/ Restart

Spec == Init /\ [][Next]_vars

\* the same with a clock that advances between calls
NextT == Next \/ Tick

SpecT == Init /\ [][NextT]_vars

\* the same calls when round trips to the store can time out
GetattrT == GetattrF(TRUE, MaxFCalls)
ReaddirT == ReaddirF(TRUE, MaxFCalls)
MknodT == MknodF(TRUE, MaxFCalls)
UnlinkT == UnlinkF(TRUE, MaxFCalls)
RmdirT == RmdirF(TRUE, MaxFCalls)
OpenT == OpenF(TRUE, MaxFCalls)
ReleaseT == ReleaseF(TRUE, MaxFCalls)
ReadT == ReadF(TRUE, MaxFCalls)
WriteT == WriteF(TRUE, MaxFCalls)
MkdirT == MkdirF(TRUE, MaxFCalls)
TruncateT == TruncateF(TRUE, MaxFCalls)
ReadlinkT == ReadlinkF(TRUE, MaxFCalls)
SymlinkT == SymlinkF(TRUE, MaxFCalls)
ChmodT == ChmodF(TRUE, MaxFCalls)

NextF ==
    \/ GetattrT
    \/ ReaddirT
    \/ MknodT
    \/ UnlinkT
    \/ RmdirT
    \/ OpenT
    \/ ReleaseT
    \/ ReadT
    \/ WriteT
    \/ MkdirT
    \/ TruncateT
    \/ ReadlinkT
    \/ SymlinkT
    \/ ChmodT

SpecF == InitP /\ [][NextF]_vars

----------------------------------------------------------------------------
(* open and release of one path called by several bridge threads at once.  *)
(* The table is touched without a lock, so a thread can be preempted       *)
(* between any two of these steps.  _inodes[CPath] holds a list object     *)
(* [inode, refs]; clists[l] is the refs slot of list object l.             *)

\* a thread enters open(CPath): the bridge makes at most MaxCOpens open calls
COpenCall(t) ==
    /\ cpc[t] = "idle"
    /\ cstat.started < MaxCOpens
    /\ cstat' = [cstat EXCEPT !.started = @ + 1]
    /\ cpc' = [cpc EXCEPT ![t] = "open_get"]
    /\ UNCHANGED <<clocal, cdict, clists, fsvars>>

\* inode = self._get_inode(path); if inode is None: return -errno.ENOENT
COpenGet(t) ==
    /\ cpc[t] = "open_get"
    /\ cpc' = [cpc EXCEPT ![t] =
          IF cdict = {} /\ \A i \in DOMAIN db : db[i].inode.path # CPath
          THEN "idle" ELSE "open_test"]
    /\ UNCHANGED <<clocal, cdict, clists, cstat, fsvars>>

\* if path not in self._inodes:
COpenTest(t) ==
    /\ cpc[t] = "open_test"
    /\ cpc' = [cpc EXCEPT ![t] = IF cdict = {} THEN "open_insert" ELSE "open_load"]
    /\ UNCHANGED <<clocal, cdict, clists, cstat, fsvars>>

\* self._inodes[path] = [inode, 0]
COpenInsert(t) ==
    /\ cpc[t] = "open_insert"
    /\ clists' = Append(clists, 0)
    /\ cdict' = {Len(clists) + 1}
    /\ cpc' = [cpc EXCEPT ![t] = "open_load"]
    /\ UNCHANGED <<clocal, cstat, fsvars>>

\* self._inodes[path][1] += 1, the load: KeyError when the entry is gone
COpenLoad(t) ==
    /\ cpc[t] = "open_load"
    /\ IF cdict = {}
       THEN /\ cpc' = [cpc EXCEPT ![t] = "idle"]
            /\ UNCHANGED clocal
       ELSE LET l == CHOOSE l1 \in cdict : TRUE
            IN /\ clocal' = [clocal EXCEPT ![t].lst = l, ![t].tmp = clists[l]]
               /\ cpc' = [cpc EXCEPT ![t] = "open_store"]
    /\ UNCHANGED <<cdict, clists, cstat, fsvars>>

\* self._inodes[path][1] += 1, the store, into the list object that was loaded
COpenStore(t) ==
    /\ cpc[t] = "open_store"
    /\ clists' = [clists EXCEPT ![clocal[t].lst] = clocal[t].tmp + 1]
    /\ cstat' = [cstat EXCEPT !.opens = @ + 1]
    /\ cpc' = [cpc EXCEPT ![t] = "idle"]
    /\ UNCHANGED <<clocal, cdict, fsvars>>

\* a thread enters release(CPath): once per successful open
CReleaseCall(t) ==
    /\ cpc[t] = "idle"
    /\ cstat.releasing < cstat.opens
    /\ cstat' = [cstat EXCEPT !.releasing = @ + 1]
    /\ cpc' = [cpc EXCEPT ![t] = "rel_load"]
    /\ UNCHANGED <<clocal, cdict, clists, fsvars>>

\* _, refs = self._inodes[path]: KeyError when the entry is gone
CReleaseLoad(t) ==
    /\ cpc[t] = "rel_load"
    /\ IF cdict = {}
       THEN /\ cpc' = [cpc EXCEPT ![t] = "idle"]
            /\ cstat' = [cstat EXCEPT !.rels = @ + 1]
            /\ UNCHANGED clocal
       ELSE /\ clocal' = [clocal EXCEPT ![t].refs = clists[CHOOSE l \in cdict : TRUE]]
            /\ cpc' = [cpc EXCEPT ![t] = "rel_dec"]
            /\ UNCHANGED cstat
    /\ UNCHANGED <<cdict, clists, fsvars>>

\* refs -= 1; if refs <= 0:
CReleaseDec(t) ==
    /\ cpc[t] = "rel_dec"
    /\ clocal' = [clocal EXCEPT ![t].refs = @ - 1]
    /\ IF clocal[t].refs - 1 <= 0
       THEN /\ cpc' = [cpc EXCEPT ![t] = "rel_del"]
            /\ UNCHANGED cstat
       ELSE /\ cpc' = [cpc EXCEPT ![t] = "idle"]
            /\ cstat' = [cstat EXCEPT !.rels = @ + 1]
    /\ UNCHANGED <<cdict, clists, fsvars>>

\* del self._inodes[path]: KeyError when the entry is gone
CReleaseDel(t) ==
    /\ cpc[t] = "rel_del"
    /\ cdict' = {}
    /\ cstat' = [cstat EXCEPT !.rels = @ + 1]
    /\ cpc' = [cpc EXCEPT ![t] = "idle"]
    /\ UNCHANGED <<clocal, clists, fsvars>>

NextC ==
    \E t \in Threads :
        \/ COpenCall(t)
        \/ COpenGet(t)
        \/ COpenTest(t)
        \/ COpenInsert(t)
        \/ COpenLoad(t)
        \/ COpenStore(t)
        \/ CReleaseCall(t)
        \/ CReleaseLoad(t)
        \/ CReleaseDec(t)
        \/ CReleaseDel(t)

SpecC == InitP /\ [][NextC]_vars

----------------------------------------------------------------------------
(* Properties *)

\* the ids of the documents stored under path p
Ids(p) == Rows(db, p)

\* the stored document of path p
Doc(p) == db[Min(Ids(p))]

\* C1: for every n >= 1, after n successful opens of a path and n releases of
\* it the cache holds no entry for the path: a path on which the bridge holds
\* no handle is not in the cache.
C1_ReleasedPathNotCached ==
    \A p \in Paths : held[p] = 0 => p \notin DOMAIN inodes

\* C2: after n successful opens of a path and k < n releases of it the cache
\* still holds an entry for the path, so that read, write and truncate find it
\* in the table: a path on which the bridge holds a handle is in the cache.
C2_HeldPathCached ==
    \A p \in Paths : held[p] > 0 => p \in DOMAIN inodes

\* a release has returned and left a handle on its path, whose entry is kept
C2_Witness ==
    /\ ret.op = "release"
    /\ ret.err = "OK"
    /\ held[ret.path] > 0
    /\ ret.path \in DOMAIN inodes

\* p is an open regular file as mknod and open leave it: its document is
\* stored, the cache holds its current revision, and it has no content yet
FreshOpenFile(p) ==
    /\ held[p] > 0
    /\ p \in DOMAIN inodes
    /\ Ids(p) = {inodes[p].inode.id}
    /\ inodes[p].inode.rev = db[inodes[p].inode.id].rev
    /\ (Doc(p).inode.mode \div 4096) * 4096 = S_IFREG
    /\ DOMAIN Doc(p).att = {}

\* what read(p, len(B), o) returns after write(p, B, o) has returned w
ReadBack(w, p, B, o) ==
    IF Ok(w.x) /\ w.n = Len(B) THEN read(w.x, p, Len(B), o).data ELSE <<"failed">>

\* C3: on a freshly created, empty, opened regular file, for every buffer B
\* and every offset o >= 0, write(p, B, o) followed by read(p, len(B), o)
\* returns exactly B.
C3_WriteReadRoundTrip ==
    \A p \in Paths : \A B \in Bufs : \A o \in 0..MaxOff :
        FreshOpenFile(p) => ReadBack(write(Here, p, B, o), p, B, o) = B

\* p is an existing directory: a stored document with a directory mode and
\* an entry map
IsDirectory(p) ==
    /\ Ids(p) # {}
    /\ BitAnd(Doc(p).inode.mode, S_IFDIR) # 0
    /\ "dentry.json" \in DOMAIN Doc(p).att

\* the names in the entry map of directory p
Entries(p) == Keys(load(Doc(p).att["dentry.json"]))

\* C4: rmdir on an existing directory, the root included, returns success iff
\* the directory's entry map holds exactly "." and ".."; when it holds a
\* further entry rmdir returns not-empty and deletes neither the directory's
\* document nor its entry in the parent's map.
C4_RmdirIffOnlyDots ==
    [][(ret'.op = "rmdir" /\ IsDirectory(ret'.path)) =>
          IF Entries(ret'.path) = {".", ".."}
          THEN ret'.err = "OK"
          ELSE ret'.err = "ENOTEMPTY" /\ db' = db]_vars

\* no two stored documents have the same path
UniquePaths ==
    \A i \in DOMAIN db : \A j \in DOMAIN db :
        db[i].inode.path = db[j].inode.path => i = j

\* C5: mknod, mkdir and symlink on a path that a stored node of any type has
\* return already-exists, create no document and change no entry map; and no
\* reachable state has two inode documents with the same path.
C5_CreateOnExistingPath ==
    /\ []UniquePaths
    /\ [][(ret'.op \in {"mknod", "mkdir", "symlink"} /\ Ids(ret'.path) # {}) =>
             (ret'.err = "EEXIST" /\ db' = db /\ nextId' = nextId)]_vars

\* mkdir has been refused on the path of a stored regular file
C5_Witness ==
    /\ ret.op = "mkdir"
    /\ ret.err = "EEXIST"
    /\ Ids(ret.path) # {}
    /\ (Doc(ret.path).inode.mode \div 4096) * 4096 = S_IFREG
    /\ UniquePaths

\* the length of the content attachment stored for path p, 0 without one
PersistedSize(p) == StubSize(Document(db, Min(Ids(p))).stubs)

\* C6: at any point of any sequence of operations, getattr on an existing
\* path reports the current length of the node's persisted content
\* attachment (0 when it has none), also after a write or truncate while the
\* path is still open.
C6_GetattrSizeIsPersisted ==
    (ret.op = "getattr" /\ Ids(ret.path) # {}) =>
        (ret.err = "OK" /\ ret.st.st_size = PersistedSize(ret.path))

\* C7: once bootstrap has created it the root inode document exists in every
\* reachable state: no operation, unlink('/') and rmdir('/') included,
\* deletes it.
C7_RootDocumentExists ==
    /\ ROOT_INODE_ID \in DOMAIN db
    /\ db[ROOT_INODE_ID].inode.path = <<>>

\* C8: every dispatcher entry point hands the caller a success value or a
\* negative error code and lets no exception escape, also when the first
\* attempt times out and the retry times out or fails.
C8_NoExceptionEscapes ==
    ret.err # "RAISED"

\* C9: readdir on a path that does not exist fails with not-found: it does
\* not raise, yields no entry and reports no other error.
C9_ReaddirMissingIsNotFound ==
    (ret.op = "readdir" /\ Ids(ret.path) = {}) =>
        (ret.err = "ENOENT" /\ ret.names = {})

\* the count of the cache entry of CPath, 0 without an entry
CRefs == IF cdict = {} THEN 0 ELSE clists[CHOOSE l \in cdict : TRUE]

\* C10: under any interleaving of concurrent opens and releases of one path
\* no update of the reference count is lost: when all calls have finished the
\* entry's count is the successful opens minus the releases.
C10_NoLostUpdate ==
    (\A t \in Threads : cpc[t] = "idle") => CRefs = cstat.opens - cstat.rels

\* p is an open regular file: its document is stored and the cache holds
\* its current revision
OpenFile(p) ==
    /\ held[p] > 0
    /\ p \in DOMAIN inodes
    /\ Ids(p) = {inodes[p].inode.id}
    /\ inodes[p].inode.rev = db[inodes[p].inode.id].rev
    /\ (Doc(p).inode.mode \div 4096) * 4096 = S_IFREG

\* the bytes stored for the file of path p in database d, none without a dblock
Content(d, p) ==
    IF "dblock" \in DOMAIN d[Min(Rows(d, p))].att
    THEN d[Min(Rows(d, p))].att["dblock"] ELSE <<>>

\* t1 is what truncate(p, L) returns and t2 what a second truncate(p, L)
\* returns after it: both succeed and leave the first L bytes of old
TruncatedTwice(t1, t2, p, L, old) ==
    /\ Ok(t1.x) /\ t1.err = "OK"
    /\ Ok(t2.x) /\ t2.err = "OK"
    /\ "dblock" \in DOMAIN t1.x.db[Min(Rows(t1.x.db, p))].att
    /\ Content(t1.x.db, p) = Take(old, L)
    /\ Content(t2.x.db, p) = Content(t1.x.db, p)

\* the second truncate runs in the state the first one left
Twice(t1, p, L, old) == TruncatedTwice(t1, truncate(t1.x, p, L), p, L, old)

\* C11: for an open regular file with any content and any length L >= 0,
\* truncate(p, L) applied twice in a row leaves the same content attachment
\* as applying it once, and that content is the first min(L, old length)
\* bytes of the previous content.
C11_TruncateIdempotent ==
    \A p \in Paths : \A L \in 0..MaxOff :
        OpenFile(p) => Twice(truncate(Here, p, L), p, L, Content(db, p))

\* a truncate has cut an open file that still has content, and truncating it
\* shorter would cut it again
C11_Witness ==
    /\ ret.op = "truncate"
    /\ ret.err = "OK"
    /\ OpenFile(ret.path)
    /\ Len(Content(db, ret.path)) = ret.size
    /\ ret.size > 0

\* the operations the bridge calls
Operations ==
    {"getattr", "readdir", "mknod", "unlink", "rmdir", "open", "release", "read",
     "write", "mkdir", "truncate", "readlink", "symlink", "chmod", "chown", "utime"}

\* C12: the body of a dispatcher operation is attempted at most twice per
\* call: exactly twice when the first attempt fails with a timeout, exactly
\* once in every other case.
C12_AttemptsPerCall ==
    ret.op \in Operations =>
        ret.tries = IF ret.first = "timeout" THEN 2 ELSE 1

\* the attachment that holds the content of a node of the given mode
ContentKind(mode) ==
    IF (mode \div 4096) * 4096 = S_IFDIR THEN "dentry.json"
    ELSE IF (mode \div 4096) * 4096 = S_IFLNK THEN "symlink"
    ELSE "dblock"

\* every inode document of database d carries exactly one content
\* attachment, of the kind its mode says
OneContentEach(d) ==
    \A i \in DOMAIN d : DOMAIN d[i].att = {ContentKind(d[i].inode.mode)}

\* C13: after every successfully completed operation every inode document
\* carries exactly one content attachment, of the kind its mode says: an
\* entry map for a directory, a byte blob for a regular file (an empty one
\* right after mknod), a link target for a symlink.  Stated of each step: an
\* operation that starts where this is so and returns success leaves it so.
C13_OneContentAttachment ==
    [][(OneContentEach(db) /\ ret'.op \in Operations /\ ret'.err = "OK")
          => OneContentEach(db')]_vars

\* the entry map stored with document i, empty without a dentry.json
MapOf(i) ==
    IF "dentry.json" \in DOMAIN db[i].att THEN load(db[i].att["dentry.json"]) ELSE {}

\* the ids ".." of the directory at path p may name: the root's own id for
\* the root, else the ids of the documents stored for dirname(p)
ParentIds(p) == IF p = <<>> THEN {ROOT_INODE_ID} ELSE Ids(split(p).dirname)

\* document i is a directory whose map has "." for itself and ".." for its
\* parent
HasDots(i) ==
    /\ <<".", i>> \in MapOf(i)
    /\ \E e \in MapOf(i) : e[1] = ".." /\ (ParentIds(db[i].inode.path) # {} =>
                                              e[2] \in ParentIds(db[i].inode.path))

\* C14: after any sequence of completed operations, with no store failure,
\* every directory document that exists has an entry map with "." mapped to
\* its own id and ".." mapped to its parent's id (the root: both to the root
\* id), also a directory document that a mkdir which returned an error left.
C14_DirectoriesHaveDots ==
    \A i \in DOMAIN db : BitAnd(db[i].inode.mode, S_IFDIR) # 0 => HasDots(i)

\* a document is stored for path p in database d
Stored(d, p) == Rows(d, p) # {}

\* the entry map of the directory stored for path p in database d, empty
\* when there is none
MapAt(d, p) ==
    IF Stored(d, p) /\ "dentry.json" \in DOMAIN d[Min(Rows(d, p))].att
    THEN load(d[Min(Rows(d, p))].att["dentry.json"]) ELSE {}

\* the entry map of the parent of p in database d names p
Named(d, p) == HasKey(MapAt(d, split(p).dirname), split(p).basename)

\* C15: of the two store transactions of a tree mutation, a create (mknod,
\* mkdir, symlink) adds the parent's entry only after the child document is
\* written, and a delete (unlink, rmdir) removes the parent's entry before it
\* deletes the child document: however far a call gets, a name it added has
\* its document, and a document it deleted has lost its name.
C15_EntryAndDocumentOrder ==
    [][/\ (/\ ret'.op \in {"mknod", "mkdir", "symlink"}
           /\ ret'.path # <<>>
           /\ ~Named(db, ret'.path)
           /\ Named(db', ret'.path)) => Stored(db', ret'.path)
       /\ (/\ ret'.op \in {"unlink", "rmdir"}
           /\ ret'.path # <<>>
           /\ Stored(db, ret'.path)
           /\ ~Stored(db', ret'.path)) => ~Named(db', ret'.path)]_vars

\* C16: every successful write, truncate and chmod on a node sets the node's
\* stored mtime to the time of the operation, and no operation changes the
\* ctime of a document after its creation.
C16_MtimeAdvances ==
    [][/\ (/\ ret'.op \in {"write", "truncate", "chmod"}
           /\ ret'.err = "OK"
           /\ Stored(db', ret'.path))
          => db'[Min(Rows(db', ret'.path))].inode.mtime = now
       /\ \A i \in DOMAIN db \cap DOMAIN db' :
             db'[i].inode.ctime = db[i].inode.ctime]_vars

\* the entry map of the directory stored for dirname(p) maps basename(p) to
\* the id of a document stored for p
Resolves(d, p) ==
    \E i \in Rows(d, p) : <<split(p).basename, i>> \in MapAt(d, split(p).dirname)

\* C17: after any sequence of completed calls without store failure, a
\* non-root path has an inode document iff the entry map of the document at
\* its dirname maps its basename to that document's id; so a create call whose
\* parent is missing leaves no document behind.
C17_TreeConsistent ==
    \A p \in Paths \ {<<>>} : Stored(db, p) <=> Resolves(db, p)

\* the call just completed is an unlink that succeeded
Removed == ret.op = "unlink" /\ ret.err = "OK"

\* the create m went through: no exception and no error code
Created(m) == Ok(m.x) /\ m.err = "OK"

\* C18: after a successful unlink of a path, getattr of that path returns
\* ENOENT and a create on that path succeeds, also when the path was open
\* (cached) at the time of the removal.
C18_RemovalVisible ==
    Removed => /\ getattr(Here, ret.path).err = "ENOENT"
               /\ Created(mknod(Here, ret.path, BitOr(S_IFREG, FilePerm), 0))

\* what the call of op on path returns, and the store it leaves, when no round
\* trip of it times out
Undisturbed(op, path) ==
    CASE op = "mknod" ->
            Wrapped(LAMBDA x : mknod(x, path, BitOr(S_IFREG, FilePerm), 0), W, 0, 0).r
      [] op = "mkdir" -> Wrapped(LAMBDA x : mkdir(x, path, DirPerm), W, 0, 0).r
      [] op = "symlink" ->
            Wrapped(LAMBDA x : symlink(x, CHOOSE s \in Targets : TRUE, path), W, 0, 0).r
      [] op = "unlink" -> Wrapped(LAMBDA x : unlink(x, path), W, 0, 0).r
      [] op = "rmdir" -> Wrapped(LAMBDA x : rmdir(x, path), W, 0, 0).r

\* the step is a tree mutation whose first attempt timed out and whose second
\* attempt met no failure
Retried ==
    /\ ret'.op \in {"mknod", "mkdir", "symlink", "unlink", "rmdir"}
    /\ ret'.first = "timeout" /\ ret'.tries = 2 /\ ret'.err # "RAISED"

\* C19: when the first attempt of mknod, mkdir, symlink, unlink or rmdir times
\* out at one of its round trips and the retry meets no failure, the return
\* value and the final store (documents and entry maps) are those of the same
\* call with no timeout at all.
C19_RetryTransparent ==
    [][Retried => /\ ret'.err = Undisturbed(ret'.op, ret'.path).err
                  /\ db' = CanonDb(Undisturbed(ret'.op, ret'.path).x.db)]_vars

\* the targets the round trip is tried with
Sources == {"/a", "b"}

\* s is a symlink(t, p) that succeeded: in the state it leaves, readlink(p)
\* returns t, getattr(p) reports a symbolic link with one link, and the entry
\* map of the parent names p
LinkReadBack(s, p, t) ==
    /\ Ok(readlink(s.x, p).x)
    /\ readlink(s.x, p).err = "OK"
    /\ readlink(s.x, p).link = t
    /\ getattr(s.x, p).err = "OK"
    /\ (getattr(s.x, p).st.st_mode \div 4096) * 4096 = S_IFLNK
    /\ getattr(s.x, p).st.st_nlink = 1
    /\ Named(s.x.db, p)

\* C20: after symlink(target, path) succeeds on an unused path under an
\* existing directory, readlink(path) returns exactly target, getattr(path)
\* reports the symlink file type with link count 1, and the parent's entry map
\* contains basename(path).
C20_SymlinkRoundTrip ==
    \A p \in Paths : \A t \in Sources :
        Created(symlink(Here, t, p)) => LinkReadBack(symlink(Here, t, p), p, t)

\* a symlink call has just succeeded and the link it made reads back
C20_Witness ==
    /\ ret.op = "symlink" /\ ret.err = "OK"
    /\ readlink(Here, ret.path).link \in Targets
    /\ (getattr(Here, ret.path).st.st_mode \div 4096) * 4096 = S_IFLNK
    /\ Named(db, ret.path)

====
